---- MODULE Spec2Model ----
(***************************************************************************)
(* A model of RL/space/euclidean.py: the spaces RN, NormedRN and           *)
(* EuclideanSpace, whose vectors wrap numpy float64 arrays, and the        *)
(* operations linComb, zero, empty, makeVector, setitem, norm, multiply.   *)
(*                                                                         *)
(* A numpy array is an element of `arrays` and is identified by its index  *)
(* there; a Vector object is an element of `vecs` and is identified by its *)
(* index there (Python's `is` compares these indices).  Several Vector     *)
(* objects may wrap the same array.                                        *)
(***************************************************************************)
EXTENDS Integers, Sequences, FiniteSets, TLC

\* ---------------------------------------------------------------- bounds
\* Vector objects alive at once.
MaxVecs == 3
\* Array elements allocated in all (the arrays' lengths summed).
MaxCells == 3
\* Largest magnitude of a finite array element from which the caller goes on.
MaxVal == 1
\* The dimensions of the spaces built.
Dims == {1, 2}
\* The scalars a, b handed to linComb.
Scalars == {0, 1, 2, 3}

\* ------------------------------------------------------- float64 values
\* A float64 is finite (an integer here), NaN, or a signed infinity.
Fin(i) == [k |-> "fin", v |-> i]
NaN == [k |-> "nan", v |-> 0]
Inf(s) == [k |-> "inf", v |-> s]
IsFin(u) == u.k = "fin"
Sign(i) == IF i > 0 THEN 1 ELSE IF i < 0 THEN -1 ELSE 0
SignOf(u) == IF u.k = "inf" THEN u.v ELSE Sign(u.v)
Absi(i) == IF i < 0 THEN -i ELSE i

\* IEEE-754 product.
Mul(u, w) ==
    IF u.k = "nan" \/ w.k = "nan" THEN NaN
    ELSE IF u.k = "fin" /\ w.k = "fin" THEN Fin(u.v * w.v)
    ELSE IF SignOf(u) = 0 \/ SignOf(w) = 0 THEN NaN
    ELSE Inf(SignOf(u) * SignOf(w))

\* IEEE-754 sum.
Add(u, w) ==
    IF u.k = "nan" \/ w.k = "nan" THEN NaN
    ELSE IF u.k = "fin" /\ w.k = "fin" THEN Fin(u.v + w.v)
    ELSE IF u.k = "inf" /\ w.k = "inf" THEN (IF u.v = w.v THEN u ELSE NaN)
    ELSE IF u.k = "inf" THEN u ELSE w

\* Contents an uninitialised (numpy.empty) array may hold.
EmptyVals == {Fin(1), NaN, Inf(1)}
\* Contents given in a list to makeVector, and values given to setitem.
ListVals == {Fin(0), Fin(1)}

\* ------------------------------------------------------------------ state
VARIABLES
    arrays,   \* the numpy arrays: arrays[i] is a sequence of float64
    vecs,     \* the Vector objects: [n |-> space dimension, values |-> array]
    call,     \* the call that has just ended (op = "none": the caller runs)
    pre,      \* `arrays` as it was when that call began
    prims,    \* the BLAS calls that call issued, in order
    err,      \* the error that call raised, or "none"
    ret       \* what that call returned

vars == <<arrays, vecs, call, pre, prims, err, ret>>

NoCall == [op |-> "none", z |-> 0, a |-> 0, x |-> 0, b |-> 0, y |-> 0, ord |-> Fin(0)]
NoRet == [vec |-> 0, val |-> Fin(0), root |-> 1]

Idle == call.op = "none"

\* RN.Vector.__init__: a Vector of the space of dimension n over array arr.
Vector(n, arr) == [n |-> n, values |-> arr]

\* The array with the whole-number elements q.
FromList(q) == [j \in DOMAIN q |-> Fin(q[j])]

\* The lists the docstrings (and the norm table) hand to makeVector, by
\* dimension.
DocVecs(n) ==
    IF n = 3 THEN {FromList(<<1, 2, 3>>), FromList(<<4, 5, 6>>), FromList(<<5, 3, 2>>)}
    ELSE {FromList(<<3, 4>>), FromList(<<3, 0>>), FromList(<<-3, 4>>)}

\* A program starts with no vector ...
InitEmpty ==
    /\ arrays = << >>
    /\ vecs = << >>

\* ... or, as the docstrings do, with vectors made by makeVector from lists.
InitDoc ==
    \E n \in {2, 3} : \E c1, c2, c3 \in DocVecs(n) :
        /\ arrays = <<c1, c2, c3>>
        /\ vecs = <<Vector(n, 1), Vector(n, 2), Vector(n, 3)>>

Init ==
    /\ InitEmpty \/ InitDoc
    /\ call = NoCall
    /\ pre = << >>
    /\ prims = << >>
    /\ err = "none"
    /\ ret = NoRet

\* Every finite element of heap h is within the model's value bound.
InRange(h) ==
    \A i \in DOMAIN h : \A j \in DOMAIN h[i] :
        IsFin(h[i][j]) => Absi(h[i][j].v) <= MaxVal

\* The elements allocated in heap h.
RECURSIVE Cells(_)
Cells(h) == IF h = << >> THEN 0 ELSE Len(Head(h)) + Cells(Tail(h))

\* The call has returned and the caller goes on to its next call.
Return ==
    /\ ~Idle
    /\ InRange(arrays)
    /\ call' = NoCall
    /\ pre' = << >>
    /\ prims' = << >>
    /\ err' = "none"
    /\ ret' = NoRet
    /\ UNCHANGED <<arrays, vecs>>

\* ------------------------------------------------------------ factories
\* A faulty Zeros: the array is allocated and never cleared.
ZerosStale(n) == [j \in 1..n |-> NaN]

\* numpy.zeros(n, dtype=float)
Zeros(n) == [j \in 1..n |-> Fin(0)]

\* A call that allocates array `contents` and returns a new Vector over it.
NewVector(name, n, contents) ==
    /\ Idle
    /\ Len(vecs) < MaxVecs
    /\ Cells(arrays) + n <= MaxCells
    /\ arrays' = Append(arrays, contents)
    /\ vecs' = Append(vecs, Vector(n, Len(arrays) + 1))
    /\ call' = [NoCall EXCEPT !.op = name]
    /\ pre' = arrays
    /\ prims' = << >>
    /\ err' = "none"
    /\ ret' = [NoRet EXCEPT !.vec = Len(vecs) + 1]

\* RN.zero
zero ==
    \E n \in Dims : NewVector("zero", n, Zeros(n))

\* RN.empty: the contents are whatever the allocator left there.
empty ==
    \E n \in Dims : \E c \in [1..n -> EmptyVals] : NewVector("empty", n, c)

\* RN.makeVector on a list: numpy.array(list).astype(float64) is a new array.
makeVectorList ==
    \E n \in Dims : \E c \in [1..n -> ListVals] : NewVector("makeVector", n, c)

\* RN.makeVector on an ndarray of the right shape: the Vector wraps that
\* very array (no copy), here the array of an existing Vector.
makeVectorArray ==
    \E n \in Dims : \E v \in DOMAIN vecs :
        /\ Idle
        /\ Len(vecs) < MaxVecs
        /\ call' = [NoCall EXCEPT !.op = "makeVector", !.x = v]
        /\ pre' = arrays
        /\ prims' = << >>
        /\ UNCHANGED arrays
        /\ IF Len(arrays[vecs[v].values]) # n
           THEN /\ err' = "ValueError"
                /\ ret' = NoRet
                /\ UNCHANGED vecs
           ELSE /\ err' = "none"
                /\ vecs' = Append(vecs, Vector(n, vecs[v].values))
                /\ ret' = [NoRet EXCEPT !.vec = Len(vecs) + 1]

\* RN.Vector.__setitem__ with an integer index: values[index] = value.
setitem ==
    \E v \in DOMAIN vecs : \E j \in 1..vecs[v].n : \E u \in ListVals :
        /\ Idle
        /\ arrays' = [arrays EXCEPT ![vecs[v].values][j] = u]
        /\ call' = [NoCall EXCEPT !.op = "setitem", !.z = v, !.x = j]
        /\ pre' = arrays
        /\ prims' = << >>
        /\ err' = "none"
        /\ ret' = NoRet
        /\ UNCHANGED vecs

\* ------------------------------------------------------- BLAS primitives
\* A primitive takes and returns a run state [h |-> heap, p |-> calls so far].
\* One element of scal(a, x).  A reference BLAS multiplies, so 0 * NaN and
\* 0 * inf stay NaN; a BLAS that special-cases a = 0 stores 0 instead
\* (zf says which).
ScalElem(a, u, zf) ==
    IF a = 0 /\ zf THEN Fin(0) ELSE Mul(Fin(a), u)

\* A faulty scal: the wrapper scales a converted copy and the array keeps
\* its contents.
scalOnCopy(s, a, arr, zf) ==
    [h |-> s.h, p |-> Append(s.p, [f |-> "scal", c |-> a])]

\* scal(a, x): x *= a, in place.
scal(s, a, arr, zf) ==
    [h |-> [s.h EXCEPT ![arr] = [j \in DOMAIN s.h[arr] |-> ScalElem(a, s.h[arr][j], zf)]],
     p |-> Append(s.p, [f |-> "scal", c |-> a])]

\* A faulty axpy: the coefficient is dropped, y += x.
axpyUnit(s, src, dst, a) ==
    [h |-> [s.h EXCEPT ![dst] =
                [j \in DOMAIN s.h[dst] |-> Add(s.h[dst][j], s.h[src][j])]],
     p |-> Append(s.p, [f |-> "axpy", c |-> a])]

\* axpy(x, y, n, a): y += a*x, in place; BLAS returns at once when a = 0.
axpy(s, src, dst, a) ==
    [h |-> IF a = 0 THEN s.h
           ELSE [s.h EXCEPT ![dst] =
                    [j \in DOMAIN s.h[dst] |-> Add(s.h[dst][j], Mul(Fin(a), s.h[src][j]))]],
     p |-> Append(s.p, [f |-> "axpy", c |-> a])]

\* A faulty copy: the arguments are swapped, x[:] = y.
copySwapped(s, src, dst) ==
    [h |-> [s.h EXCEPT ![src] = s.h[dst]],
     p |-> Append(s.p, [f |-> "copy", c |-> 1])]

\* copy(x, y): y[:] = x.
copy(s, src, dst) ==
    [h |-> [s.h EXCEPT ![dst] = s.h[src]],
     p |-> Append(s.p, [f |-> "copy", c |-> 1])]

\* A faulty fill0: the zero assignment is left out.
fill0Skipped(s, arr) == s

\* z.values[:] = 0, a direct write and no BLAS call.
fill0(s, arr) ==
    [h |-> [s.h EXCEPT ![arr] = [j \in DOMAIN s.h[arr] |-> Fin(0)]], p |-> s.p]

\* ---------------------------------------------------------- linCombImpl
\* A faulty linCombNoAlias: the general sequence copy, scal, axpy is run
\* whatever a and b are.
linCombNoAliasGeneral(s, zv, a, xv, b, yv, zf) ==
    axpy(scal(copy(s, yv, zv), b, zv, zf), xv, zv, a)

\* The last branch of linCombImpl, "we have exhausted all alignment
\* options": the sequence is picked by the values of a and b.
linCombNoAlias(s, zv, a, xv, b, yv, zf) ==
    IF b = 0 THEN
        IF a = 0 THEN fill0(s, zv)
        ELSE LET s1 == copy(s, xv, zv)
             IN  IF a # 1 THEN scal(s1, a, zv, zf) ELSE s1
    ELSE IF a = 0 THEN
        LET s1 == copy(s, yv, zv)
        IN  IF b # 1 THEN scal(s1, b, zv, zf) ELSE s1
    ELSE IF a = 1 THEN
        axpy(copy(s, xv, zv), yv, zv, b)
    ELSE
        LET s1 == copy(s, yv, zv)
            s2 == IF b # 1 THEN scal(s1, b, zv, zf) ELSE s1
        IN  axpy(s2, xv, zv, a)

\* A faulty linCombImpl: the aliased branches scale and add whatever a and b
\* are, and x is y is not folded into one coefficient.
linCombImplUnguarded(s, z, a, x, b, y, zf) ==
    LET zv == vecs[z].values
        xv == vecs[x].values
        yv == vecs[y].values
    IN
    IF z = x /\ z = y THEN
        scal(s, a + b, zv, zf)
    ELSE IF z = x THEN
        axpy(scal(s, a, zv, zf), yv, zv, b)
    ELSE IF z = y THEN
        axpy(scal(s, b, zv, zf), xv, zv, a)
    ELSE
        linCombNoAlias(s, zv, a, xv, b, yv, zf)

\* RN.linCombImpl(z, a, x, b, y) from run state s; z, x, y are Vector
\* objects and `is` compares the objects, not their arrays.
RECURSIVE linCombImpl(_, _, _, _, _, _, _)
linCombImpl(s, z, a, x, b, y, zf) ==
    LET zv == vecs[z].values
        xv == vecs[x].values
        yv == vecs[y].values
    IN
    IF x = y /\ b # 0 THEN
        linCombImpl(s, z, a + b, x, 0, x, zf)
    ELSE IF z = x /\ z = y THEN
        scal(s, a + b, zv, zf)
    ELSE IF z = x THEN
        LET s1 == IF a # 1 THEN scal(s, a, zv, zf) ELSE s
        IN  IF b # 0 THEN axpy(s1, yv, zv, b) ELSE s1
    ELSE IF z = y THEN
        LET s1 == IF b # 1 THEN scal(s, b, zv, zf) ELSE s
        IN  IF a # 0 THEN axpy(s1, xv, zv, a) ELSE s1
    ELSE
        linCombNoAlias(s, zv, a, xv, b, yv, zf)

\* RN.equals: spaces are equal when their dimensions are.
SameSpace(n, vs) == \A v \in vs : vecs[v].n = n

\* A faulty linCombCall: z is cleared before the operands are checked.
linCombCallLateCheck(h, z, a, x, b, y, zf) ==
    IF ~SameSpace(vecs[z].n, {x, y})
    THEN [h |-> fill0([h |-> h, p |-> << >>], vecs[z].values).h,
          p |-> << >>, err |-> "DimensionMismatch"]
    ELSE LET r == linCombImpl([h |-> h, p |-> << >>], z, a, x, b, y, zf)
         IN  [h |-> r.h, p |-> r.p, err |-> "none"]

\* LinearSpace.linComb, asked of the space of z: the operands must all
\* belong to the space, which is checked before linCombImpl runs.
linCombCall(h, z, a, x, b, y, zf) ==
    IF ~SameSpace(vecs[z].n, {x, y})
    THEN [h |-> h, p |-> << >>, err |-> "DimensionMismatch"]
    ELSE LET r == linCombImpl([h |-> h, p |-> << >>], z, a, x, b, y, zf)
         IN  [h |-> r.h, p |-> r.p, err |-> "none"]

linComb ==
    \E z, x, y \in DOMAIN vecs : \E a, b \in Scalars : \E zf \in BOOLEAN :
        LET r == linCombCall(arrays, z, a, x, b, y, zf)
        IN  /\ Idle
            /\ call' = [NoCall EXCEPT !.op = "linComb", !.z = z, !.a = a,
                                      !.x = x, !.b = b, !.y = y]
            /\ pre' = arrays
            /\ arrays' = r.h
            /\ prims' = r.p
            /\ err' = r.err
            /\ ret' = NoRet
            /\ UNCHANGED vecs

\* ---------------------------------------------------------- multiplyImpl
\* A faulty multiplyImpl: the product is stored into x.
multiplyImplIntoX(h, x, y) ==
    LET xv == vecs[x].values
        yv == vecs[y].values
        product == [j \in DOMAIN h[yv] |-> Mul(h[xv][j], h[yv][j])]
    IN  [h EXCEPT ![xv] = product]

\* EuclideanSpace.multiplyImpl: y.values[:] = x.values*y.values.  numpy
\* builds the product array first and then stores it into y's array.
multiplyImpl(h, x, y) ==
    LET xv == vecs[x].values
        yv == vecs[y].values
        product == [j \in DOMAIN h[yv] |-> Mul(h[xv][j], h[yv][j])]
    IN  [h EXCEPT ![yv] = product]

\* Algebra.multiply, asked of the space of y: both operands must belong to
\* the space, which is checked before multiplyImpl runs.
multiplyCall(h, x, y) ==
    IF ~SameSpace(vecs[y].n, {x})
    THEN [h |-> h, err |-> "DimensionMismatch"]
    ELSE [h |-> multiplyImpl(h, x, y), err |-> "none"]

multiply ==
    \E x, y \in DOMAIN vecs :
        LET r == multiplyCall(arrays, x, y)
        IN  /\ Idle
            /\ call' = [NoCall EXCEPT !.op = "multiply", !.x = x, !.y = y]
            /\ pre' = arrays
            /\ arrays' = r.h
            /\ prims' = << >>
            /\ err' = r.err
            /\ ret' = NoRet
            /\ UNCHANGED vecs

\* -------------------------------------------------------------- normImpl
\* The orders of the norm: 0, 1, 2, 3, +inf and -inf.
Ords == {Fin(0), Fin(1), Fin(2), Fin(3), Inf(1), Inf(-1)}

\* A faulty AbsV: the absolute value is left out.
AbsVIdentity(u) == u

\* numpy.abs of one element.
AbsV(u) == IF u.k = "fin" THEN Fin(Absi(u.v)) ELSE IF u.k = "inf" THEN Inf(1) ELSE NaN

\* u ** p of a non-negative element, for an integer p >= 1.
RECURSIVE PowV(_, _)
PowV(u, p) == IF p = 1 THEN u ELSE Mul(u, PowV(u, p - 1))

\* numpy.add.reduce of a sequence of elements.
RECURSIVE SumV(_)
SumV(q) == IF q = << >> THEN Fin(0) ELSE Add(Head(q), SumV(Tail(q)))

\* The larger of two non-negative elements; NaN wins, as in numpy's max.
MaxV(u, w) ==
    IF u.k = "nan" \/ w.k = "nan" THEN NaN
    ELSE IF u.k = "inf" \/ w.k = "inf" THEN Inf(1)
    ELSE IF u.v >= w.v THEN u ELSE w

\* The smaller of two non-negative elements; NaN wins, as in numpy's min.
MinV(u, w) ==
    IF u.k = "nan" \/ w.k = "nan" THEN NaN
    ELSE IF u.k = "inf" THEN w
    ELSE IF w.k = "inf" THEN u
    ELSE IF u.v <= w.v THEN u ELSE w

\* numpy's max and min of a non-empty array.
RECURSIVE MaxSeq(_)
MaxSeq(q) == IF Len(q) = 1 THEN q[1] ELSE MaxV(Head(q), MaxSeq(Tail(q)))

RECURSIVE MinSeq(_)
MinSeq(q) == IF Len(q) = 1 THEN q[1] ELSE MinV(Head(q), MinSeq(Tail(q)))

\* i ** p for integers, p >= 0.
RECURSIVE IPow(_, _)
IPow(i, p) == IF p = 0 THEN 1 ELSE i * IPow(i, p - 1)

\* u ** (1/p) of a non-negative u.  The result is kept exact: val when the
\* root is a whole number (root = 1), and otherwise the pair that stands
\* for val ** (1/root).
Root(u, p) ==
    IF u.k # "fin" THEN [val |-> u, root |-> 1]
    ELSE IF \E r \in 0..u.v : IPow(r, p) = u.v
         THEN [val |-> Fin(CHOOSE r \in 0..u.v : IPow(r, p) = u.v), root |-> 1]
         ELSE [val |-> u, root |-> p]

\* numpy.linalg.norm(v, ord) of a one-dimensional array v.
linalgNorm(v, ord) ==
    LET absx == [j \in DOMAIN v |-> AbsV(v[j])]
    IN  IF ord = Inf(1) THEN [val |-> MaxSeq(absx), root |-> 1]
        ELSE IF ord = Inf(-1) THEN [val |-> MinSeq(absx), root |-> 1]
        ELSE IF ord = Fin(0)
             THEN [val |-> Fin(Cardinality({j \in DOMAIN v : v[j] # Fin(0)})), root |-> 1]
        ELSE IF ord = Fin(1) THEN [val |-> SumV(absx), root |-> 1]
        ELSE Root(SumV([j \in DOMAIN v |-> PowV(absx[j], ord.v)]), ord.v)

\* BLAS nrm2(v): sqrt(v[0]**2 + ... + v[n-1]**2).
nrm2(v) == Root(SumV([j \in DOMAIN v |-> Mul(v[j], v[j])]), 2)

\* A call that changes nothing and returns the number r.
Returns(name, x, ord, r) ==
    /\ Idle
    /\ call' = [NoCall EXCEPT !.op = name, !.x = x, !.ord = ord]
    /\ pre' = arrays
    /\ prims' = << >>
    /\ err' = "none"
    /\ ret' = [vec |-> 0, val |-> r.val, root |-> r.root]
    /\ UNCHANGED <<arrays, vecs>>

\* NormedRN.normImpl, of the space NormedRN(n, ord) of the vector.
normImpl ==
    \E x \in DOMAIN vecs : \E ord \in Ords :
        Returns("norm", x, ord, linalgNorm(arrays[vecs[x].values], ord))

\* EuclideanSpace.normImpl
normImplEuclidean ==
    \E x \in DOMAIN vecs :
        Returns("norm2", x, Fin(2), nrm2(arrays[vecs[x].values]))

Next ==
    \/ zero
    \/ empty
    \/ makeVectorList
    \/ makeVectorArray
    \/ setitem
    \/ linComb
    \/ multiply
    \/ normImpl
    \/ normImplEuclidean
    \/ Return

Spec == Init /\ [][Next]_vars


\* ------------------------------------------------- scalars of either sign
\* Scalars of either sign, so that a + b = 0 and a + b = 1 come about with
\* neither a nor b being 0.
SignedScalars == {-2, -1, 0, 1, 2}

\* Three vectors of the one-dimensional space, made by makeVector from lists.
InitSigned ==
    /\ \E c1, c2, c3 \in ListVals :
        /\ arrays = <<<<c1>>, <<c2>>, <<c3>>>>
        /\ vecs = <<Vector(1, 1), Vector(1, 2), Vector(1, 3)>>
    /\ call = NoCall
    /\ pre = << >>
    /\ prims = << >>
    /\ err = "none"
    /\ ret = NoRet

\* linComb with scalars of either sign.
linCombSigned ==
    \E z, x, y \in DOMAIN vecs : \E a, b \in SignedScalars : \E zf \in BOOLEAN :
        LET r == linCombCall(arrays, z, a, x, b, y, zf)
        IN  /\ Idle
            /\ call' = [NoCall EXCEPT !.op = "linComb", !.z = z, !.a = a,
                                      !.x = x, !.b = b, !.y = y]
            /\ pre' = arrays
            /\ arrays' = r.h
            /\ prims' = r.p
            /\ err' = r.err
            /\ ret' = NoRet
            /\ UNCHANGED vecs

NextSigned ==
    \/ linCombSigned
    \/ Return

SpecSigned == InitSigned /\ [][NextSigned]_vars


\* =================================================================== claims
\* What the claims speak of, read off the record of the call that just ended.
zA == vecs[call.z].values
xA == vecs[call.x].values
yA == vecs[call.y].values

\* linComb ran to its end.
LinCombRan == call.op = "linComb" /\ err = "none"

\* z, x and y are backed by three different arrays.
NoAlias == zA # xA /\ zA # yA /\ xA # yA

\* Arguments that are different Vector objects are backed by different arrays.
ObjectsApart ==
    \A u, w \in {call.z, call.x, call.y} : u # w => vecs[u].values # vecs[w].values

\* Two of the arguments are different Vector objects over one array.
SharedByDistinct == ~ObjectsApart

\* x and y held only finite values when the call began.
FiniteOperands ==
    /\ \A j \in DOMAIN pre[xA] : IsFin(pre[xA][j])
    /\ \A j \in DOMAIN pre[yA] : IsFin(pre[yA][j])

\* a*x[j] + b*y[j] on the contents before the call, in IEEE arithmetic.
Reference(j) ==
    Add(Mul(Fin(call.a), pre[xA][j]), Mul(Fin(call.b), pre[yA][j]))

\* c*u, but exactly 0 when c = 0.
Term(c, u) == IF c = 0 THEN Fin(0) ELSE Mul(Fin(c), u)

\* The same sum with a term of coefficient 0 counted as exactly 0.
ReferenceSkippingZero(j) ==
    Add(Term(call.a, pre[xA][j]), Term(call.b, pre[yA][j]))

\* Every element of v is 0.
IsZero(v) == \A j \in DOMAIN v : v[j] = Fin(0)

\* ----------------------------------------------------------------- C1
\* C1 as stated: for pairwise non-aliased x, y, z and all a, b, after
\* linComb(z, a, x, b, y) every element is z[i] = a*x[i] + b*y[i] on the
\* contents before the call.
C1_AsStated ==
    (LinCombRan /\ NoAlias) =>
        \A j \in DOMAIN arrays[zA] : arrays[zA][j] = Reference(j)

\* C1 amended: for pairwise non-aliased x, y, z and all a, b, every element
\* is z[i] = a*x[i] + b*y[i] with a term whose coefficient is 0 counted as
\* exactly 0 (x or y is then not read, so its NaN or infinity does not
\* reach z); with finite x and y this is a*x[i] + b*y[i] as stated, and
\* x = [1,2,3], y = [4,5,6], a = 2, b = 3 gives z = [14,19,24].
C1_LinCombNoAlias ==
    (LinCombRan /\ NoAlias) =>
        /\ \A j \in DOMAIN arrays[zA] : arrays[zA][j] = ReferenceSkippingZero(j)
        /\ FiniteOperands =>
             \A j \in DOMAIN arrays[zA] :
                arrays[zA][j] = Fin(call.a * pre[xA][j].v + call.b * pre[yA][j].v)
        /\ (/\ pre[xA] = FromList(<<1, 2, 3>>)
            /\ pre[yA] = FromList(<<4, 5, 6>>)
            /\ call.a = 2 /\ call.b = 3) => arrays[zA] = FromList(<<14, 19, 24>>)

\* The docstring's call has run: z = 2*[1,2,3] + 3*[4,5,6].
C1_Witness ==
    /\ LinCombRan /\ NoAlias
    /\ call.a = 2 /\ call.b = 3
    /\ pre[xA] = FromList(<<1, 2, 3>>) /\ pre[yA] = FromList(<<4, 5, 6>>)
    /\ arrays[zA] = FromList(<<14, 19, 24>>)

\* ----------------------------------------------------------------- C2
\* linComb(z, a + b, x, 0, x) run on the contents before the call leaves z
\* as the call left it.
SameAsCollapsed ==
    \E zf \in BOOLEAN :
        arrays[zA] = linCombImpl([h |-> pre, p |-> << >>],
                                 call.z, call.a + call.b, call.x, 0, call.x, zf).h[zA]

\* One Vector object was passed for several arguments.
SameObject == call.z = call.x \/ call.z = call.y \/ call.x = call.y

\* C2 as stated: when one Vector object is passed for several arguments,
\* z ends as a*x + b*y computed from the contents before the call, and
\* linComb(z, a, x, b, x) leaves z as linComb(z, a+b, x, 0, x) does.
C2_AsStated ==
    (LinCombRan /\ SameObject /\ ObjectsApart) =>
        /\ \A j \in DOMAIN arrays[zA] : arrays[zA][j] = Reference(j)
        /\ call.x = call.y => SameAsCollapsed

\* C2 amended: when one Vector object is passed for several arguments, any
\* other argument is backed by another array, and x and y hold only finite
\* values, z ends as a*x + b*y computed from the contents before the call;
\* and for any contents linComb(z, a, x, b, x) leaves z as
\* linComb(z, a+b, x, 0, x) does.
C2_LinCombSameObject ==
    (LinCombRan /\ SameObject /\ ObjectsApart) =>
        /\ FiniteOperands =>
             \A j \in DOMAIN arrays[zA] :
                arrays[zA][j] = Fin(call.a * pre[xA][j].v + call.b * pre[yA][j].v)
        /\ call.x = call.y => SameAsCollapsed

\* z = 2*z + 3*y has run in place on the docstring's vectors.
C2_Witness ==
    /\ LinCombRan /\ call.z = call.x /\ call.z # call.y
    /\ call.a = 2 /\ call.b = 3
    /\ pre[zA] = FromList(<<1, 2, 3>>) /\ pre[yA] = FromList(<<4, 5, 6>>)
    /\ arrays[zA] = FromList(<<14, 19, 24>>)

\* ----------------------------------------------------------------- C3
\* C3: when two different Vector objects over one array are passed among
\* z, x, y, linComb treats the pair as aliased and z ends as a*x + b*y
\* computed from the contents before the call (finite contents).
C3_SharedArrayDetected ==
    (LinCombRan /\ SharedByDistinct /\ FiniteOperands) =>
        \A j \in DOMAIN arrays[zA] :
            arrays[zA][j] = Fin(call.a * pre[xA][j].v + call.b * pre[yA][j].v)

\* ----------------------------------------------------------------- C4
\* C4 as stated: for every choice of z, x, y, linComb(z, 0, x, 0, y) leaves
\* every element of z equal to 0, whatever the arrays held, NaN and
\* infinities included.
C4_AsStated ==
    (LinCombRan /\ call.a = 0 /\ call.b = 0) => IsZero(arrays[zA])

\* C4 amended: linComb(z, 0, x, 0, y) leaves every element of z equal to 0,
\* whatever the arrays held, when z is a different Vector object from x and
\* from y; when z is x or z is y the array is scaled by 0 in place, which
\* leaves 0 where z was finite and 0 or NaN where z held NaN or an infinity.
C4_ZeroAssignment ==
    (LinCombRan /\ call.a = 0 /\ call.b = 0) =>
        /\ (call.z # call.x /\ call.z # call.y) => IsZero(arrays[zA])
        /\ (call.z = call.x \/ call.z = call.y) =>
             \A j \in DOMAIN arrays[zA] :
                IF IsFin(pre[zA][j]) THEN arrays[zA][j] = Fin(0)
                ELSE arrays[zA][j] \in {Fin(0), NaN}

\* Zero assignment over a z that held NaN, with NaN in x as well.
C4_Witness ==
    /\ LinCombRan /\ call.a = 0 /\ call.b = 0
    /\ call.z # call.x /\ call.z # call.y
    /\ \E j \in DOMAIN pre[zA] : pre[zA][j] = NaN
    /\ \E j \in DOMAIN pre[xA] : ~IsFin(pre[xA][j])
    /\ IsZero(arrays[zA])

\* ----------------------------------------------------------------- C5
\* z, x, y are not all of spaces of one dimension.
MixedDims == vecs[call.x].n # vecs[call.z].n \/ vecs[call.y].n # vecs[call.z].n

\* C5: linComb on z, x, y that are not all of spaces of the same dimension
\* fails with DimensionMismatch before any BLAS call or write: every array
\* is as it was before the call.
C5_DimensionMismatch ==
    (call.op = "linComb" /\ MixedDims) =>
        /\ err = "DimensionMismatch"
        /\ prims = << >>
        /\ arrays = pre

\* The call failed over a z that a successful zero assignment would change.
C5_Witness ==
    /\ call.op = "linComb" /\ MixedDims
    /\ err = "DimensionMismatch"
    /\ call.a = 0 /\ call.b = 0
    /\ ~IsZero(arrays[zA])

\* ----------------------------------------------------------------- C6
\* C6: linComb writes to the array of z alone: every other array, that of
\* an x or y not sharing with z included, is as it was before the call.
C6_LinCombFrame ==
    call.op = "linComb" =>
        /\ DOMAIN arrays = DOMAIN pre
        /\ \A i \in DOMAIN arrays : i # zA => arrays[i] = pre[i]

\* A call that changed z while x and y lie in other arrays.
C6_Witness ==
    /\ LinCombRan /\ NoAlias
    /\ arrays[zA] # pre[zA]
    /\ arrays[xA] = pre[xA] /\ arrays[yA] = pre[yA]

\* ----------------------------------------------------------------- C7
\* C7: zero() returns a vector of n zeros over a new array that no other
\* vector is backed by, whatever was written to other vectors before; and
\* a write through a vector (setitem) changes no array but that vector's.
C7_ZeroFresh ==
    /\ call.op = "zero" =>
         /\ Len(arrays[vecs[ret.vec].values]) = vecs[ret.vec].n
         /\ IsZero(arrays[vecs[ret.vec].values])
         /\ \A v \in DOMAIN vecs : v # ret.vec => vecs[v].values # vecs[ret.vec].values
         /\ \A i \in DOMAIN pre : arrays[i] = pre[i]
    /\ call.op = "setitem" =>
         \A i \in DOMAIN arrays : i # zA => arrays[i] = pre[i]

\* zero() has returned while an older vector holds non-zero contents.
C7_Witness ==
    /\ call.op = "zero"
    /\ Len(vecs) >= 2
    /\ \E i \in DOMAIN pre : \E j \in DOMAIN pre[i] : pre[i][j] # Fin(0)

\* ----------------------------------------------------------------- C8
\* C8: multiply(x, y) leaves y[i] = x[i]*y[i] computed from the contents
\* before the call and changes no other array (so x, when it lies in
\* another array); with x and y the same vector y[i] becomes y[i]^2;
\* x = [5,3,2], y = [1,2,3] leaves y = [5,6,6] and x = [5,3,2].
C8_Multiply ==
    (call.op = "multiply" /\ err = "none") =>
        /\ \A j \in DOMAIN arrays[yA] :
              arrays[yA][j] = Mul(pre[xA][j], pre[yA][j])
        /\ \A i \in DOMAIN arrays : i # yA => arrays[i] = pre[i]
        /\ call.x = call.y =>
              \A j \in DOMAIN arrays[yA] : arrays[yA][j] = Mul(pre[yA][j], pre[yA][j])
        /\ (pre[xA] = FromList(<<5, 3, 2>>) /\ pre[yA] = FromList(<<1, 2, 3>>)) =>
              /\ arrays[yA] = FromList(<<5, 6, 6>>)
              /\ arrays[xA] = FromList(<<5, 3, 2>>)

\* The docstring's multiply has run.
C8_Witness ==
    /\ call.op = "multiply" /\ err = "none"
    /\ pre[xA] = FromList(<<5, 3, 2>>) /\ pre[yA] = FromList(<<1, 2, 3>>)
    /\ arrays[yA] = FromList(<<5, 6, 6>>)

\* ----------------------------------------------------------------- C9
\* The vector whose norm was asked for.
NormArg == pre[xA]

AllFinite(v) == \A j \in DOMAIN v : IsFin(v[j])

\* |v[1]|^p + ... + |v[n]|^p for a finite v.
RECURSIVE PowSumTo(_, _, _)
PowSumTo(v, p, n) ==
    IF n = 0 THEN 0 ELSE IPow(Absi(v[n].v), p) + PowSumTo(v, p, n - 1)

\* The indices up to n where v is not 0.
RECURSIVE NonZeroTo(_, _)
NonZeroTo(v, n) ==
    IF n = 0 THEN 0 ELSE (IF v[n] = Fin(0) THEN 0 ELSE 1) + NonZeroTo(v, n - 1)

\* ret stands for the p-th root of s.
IsRootOf(s, p) ==
    /\ IsFin(ret.val) /\ ret.val.v >= 0
    /\ \/ ret.root = 1 /\ IPow(ret.val.v, p) = s
       \/ ret.root = p /\ ret.val.v = s /\ ~\E r \in 0..s : IPow(r, p) = s

\* ret is the whole number i.
Returned(i) == ret.val = Fin(i) /\ ret.root = 1

\* C9: norm(x, ord) is max |x[i]| for ord = +inf, min |x[i]| for ord = -inf,
\* the number of x[i] # 0 for ord = 0 and (sum |x[i]|^ord)^(1/ord) for the
\* other orders (here 1, 2, 3; x finite); so the norm of the zero vector is 0
\* for every ord > 0, norm([3,4], 1) = 7, norm([3,4], 2) = 5 and
\* norm([3,0], 0) = 1; the Euclidean space's norm is the one of order 2; x
\* is not modified.
C9_Norm ==
    (call.op \in {"norm", "norm2"}) =>
        LET v == NormArg
            n == Len(v)
            ord == call.ord
        IN  /\ arrays = pre
            /\ err = "none"
            /\ (ord = Inf(1) /\ AllFinite(v)) =>
                  /\ ret.root = 1 /\ IsFin(ret.val)
                  /\ \E j \in 1..n : ret.val.v = Absi(v[j].v)
                  /\ \A j \in 1..n : ret.val.v >= Absi(v[j].v)
            /\ (ord = Inf(-1) /\ AllFinite(v)) =>
                  /\ ret.root = 1 /\ IsFin(ret.val)
                  /\ \E j \in 1..n : ret.val.v = Absi(v[j].v)
                  /\ \A j \in 1..n : ret.val.v <= Absi(v[j].v)
            /\ ord = Fin(0) => Returned(NonZeroTo(v, n))
            /\ (ord \in {Fin(1), Fin(2), Fin(3)} /\ AllFinite(v)) =>
                  IsRootOf(PowSumTo(v, ord.v, n), ord.v)
            /\ (ord \in {Fin(1), Fin(2), Fin(3), Inf(1)} /\ IsZero(v)) => Returned(0)
            /\ (v = FromList(<<3, 4>>) /\ ord = Fin(1)) => Returned(7)
            /\ (v = FromList(<<3, 4>>) /\ ord = Fin(2)) => Returned(5)
            /\ (v = FromList(<<3, 0>>) /\ ord = Fin(0)) => Returned(1)

\* NormedRN(2, ord=2).norm([3, 4]) has returned 5.
C9_Witness ==
    /\ call.op = "norm" /\ call.ord = Fin(2)
    /\ NormArg = FromList(<<3, 4>>)
    /\ Returned(5)

\* ---------------------------------------------------------------- C10
\* z, x, y are three different Vector objects.
ThreeObjects == call.z # call.x /\ call.z # call.y /\ call.x # call.y

\* C10 as stated: a linComb call, its recursive call included, issues at
\* most two BLAS calls among scal, axpy and copy.
C10_AsStated ==
    call.op = "linComb" => Len(prims) <= 2

\* C10 amended: a linComb call, its recursive call included, issues at most
\* three BLAS calls among scal, axpy and copy; it issues three (copy, scal,
\* axpy) exactly when z, x, y are three different Vector objects and neither
\* a nor b is 0 or 1, and at most two otherwise.
C10_AtMostThree ==
    call.op = "linComb" =>
        /\ Len(prims) <= 3
        /\ \A i \in DOMAIN prims : prims[i].f \in {"scal", "axpy", "copy"}
        /\ Len(prims) = 3 <=>
              /\ err = "none"
              /\ ThreeObjects
              /\ call.a \notin {0, 1}
              /\ call.b \notin {0, 1}

\* The docstring's call z = 2*x + 3*y issued copy, scal, axpy.
C10_Witness ==
    /\ LinCombRan /\ ThreeObjects
    /\ call.a = 2 /\ call.b = 3
    /\ prims = <<[f |-> "copy", c |-> 1], [f |-> "scal", c |-> 3], [f |-> "axpy", c |-> 2]>>

\* ---------------------------------------------------------------- C11
\* The call issued BLAS primitive f with coefficient c.
Issued(f, c) == \E i \in DOMAIN prims : prims[i].f = f /\ prims[i].c = c

\* z, x and y are one Vector object.
AllThree == call.z = call.x /\ call.z = call.y

\* C11 as stated: whatever the aliasing among z, x, y and whatever a and b,
\* linComb issues no scal with factor 1 or factor 0 and no axpy with
\* coefficient 0.
C11_AsStated ==
    call.op = "linComb" =>
        /\ ~Issued("scal", 1)
        /\ ~Issued("scal", 0)
        /\ ~Issued("axpy", 0)

\* C11 amended: linComb never issues an axpy with coefficient 0; it issues a
\* scal with factor 1 exactly when z, x, y are one Vector object and
\* a + b = 1; it issues a scal with factor 0 exactly when z, x, y are one
\* object and a + b = 0, or z is x only and a = 0, or z is y only and b = 0.
\* When z is a different object from x and from y no scal has factor 1 or 0.
C11_NoNeedlessMultiply ==
    call.op = "linComb" =>
        /\ ~Issued("axpy", 0)
        /\ Issued("scal", 1) <=> (AllThree /\ call.a + call.b = 1)
        /\ Issued("scal", 0) <=>
              \/ AllThree /\ call.a + call.b = 0
              \/ call.z = call.x /\ call.z # call.y /\ call.a = 0
              \/ call.z = call.y /\ call.z # call.x /\ call.b = 0

\* All three arguments were one object, a = 2 and b = -1: the recursive call
\* ended in the single scal(a + b) with factor 1.
C11_Witness ==
    /\ LinCombRan /\ AllThree
    /\ call.a = 2 /\ call.b = -1
    /\ prims = <<[f |-> "scal", c |-> 1]>>
====
